---- MODULE Spec2Model ----
(***************************************************************************)
(* Model of Security-sdk.py: the SecurityScanner class and its __main__    *)
(* block.  The program is one sequential process; the external world (the  *)
(* outcome of every subprocess, the interpreter being in a virtual         *)
(* environment, the text typed at the prompt, the existence of the target  *)
(* path) is chosen nondeterministically.                                   *)
(*                                                                         *)
(* Texts (stdout, stderr, the typed line) are sequences of characters.     *)
(* A printed line is <<literal, interpolated text>>, a log line is         *)
(* <<level, literal, interpolated text>>.  Optional[str] is None == <<>>   *)
(* or Str(t) == <<t>>.                                                     *)
(***************************************************************************)
EXTENDS Integers, Sequences, FiniteSets, TLC

VARIABLES
    pc,         \* position of the program
    venv,       \* sys.prefix != sys.base_prefix
    world,      \* the last answers of the outside world: subprocess outcome, path existence
    probes,     \* version probes run so far, with how each ended
    launched,   \* scan commands handed to subprocess.run so far
    out,        \* lines printed on the console
    log,        \* lines written to security_scanner.log
    ret,        \* what the last adapter call did and returned
    file_path,  \* the Path built from the typed line
    exitCode,   \* exit code of the process, Running while it runs
    fault       \* the exception that ended the process, if any

vars == <<pc, venv, world, probes, launched, out, log, ret, file_path, exitCode, fault>>

----------------------------------------------------------------------------
(* Bounds *)
MaxLen == 2        \* longest stdout / stderr text
MaxExit == 2       \* largest subprocess exit code
MaxPathLen == 2    \* longest line typed at the prompt

----------------------------------------------------------------------------
(* Values *)
SeqsUpTo(S, n) == UNION {[1..k -> S] : k \in 0..n}

Texts == SeqsUpTo({"a"}, MaxLen)

ExitCodes == (0 - 1)..MaxExit

PathInputs == SeqsUpTo({" ", "a"}, MaxPathLen)

NoText == <<>>

None == <<>>

Str(t) == <<t>>

Running == 0 - 1

KnownTools == {"pip-audit", "safety", "bandit"}

SEPARATOR == <<"\n-----------------------------------\n", NoText>>

\* what the operating system can answer to subprocess.run
Outcomes ==
    [kind : {"FileNotFoundError"}, returncode : {0}, stdout : {NoText}, stderr : {NoText}]
    \cup [kind : {"exited"}, returncode : ExitCodes, stdout : Texts, stderr : Texts]

NoCall == [tool |-> "none", raised |-> "none", launched |-> FALSE,
           status |-> "none", result |-> None, out |-> <<>>, log |-> <<>>]

----------------------------------------------------------------------------
(* subprocess.run(..., check=True): what the call does for an outcome *)
subprocess_run(o) ==
    IF o.kind = "FileNotFoundError" THEN "FileNotFoundError"
    ELSE IF o.returncode # 0 THEN "CalledProcessError"
    ELSE "CompletedProcess"

(* a handler that catches FileNotFoundError only *)
verify_tool_installed_nonzero_ok(o) == subprocess_run(o) # "FileNotFoundError"

(* _verify_tool_installed: TRUE when the probe passes, FALSE when the      *)
(* handler of (CalledProcessError, FileNotFoundError) runs sys.exit(1)     *)
verify_tool_installed(o) == subprocess_run(o) = "CompletedProcess"

(* str.strip() on the typed line: drop leading and trailing blanks *)
RECURSIVE lstrip(_)
lstrip(s) == IF s # <<>> /\ Head(s) = " " THEN lstrip(Tail(s)) ELSE s

RECURSIVE rstrip(_)
rstrip(s) == IF s # <<>> /\ s[Len(s)] = " " THEN rstrip(SubSeq(s, 1, Len(s) - 1)) ELSE s

strip(s) == rstrip(lstrip(s))

(* Path(text): the empty text is the current directory *)
Path(s) == IF s = <<>> THEN <<".">> ELSE s

(* a run_pip_audit that, like run_safety, reports exit code 1 as findings *)
run_pip_audit_findings(o) ==
    LET r == subprocess_run(o)
        pre == [tool |-> "pip-audit", launched |-> TRUE]
        head == <<"Running pip-audit...\n", NoText>>
        hlog == <<"info", "Running pip-audit.", NoText>>
    IN  IF r = "CompletedProcess" THEN
            pre @@ [raised |-> "none", status |-> "Success", result |-> Str(o.stdout),
                    out |-> <<head, <<"pip-audit Results:\n", NoText>>, <<"", o.stdout>>>>,
                    log |-> <<hlog, <<"info", "pip-audit completed successfully.", NoText>>>>]
        ELSE IF r = "CalledProcessError" /\ o.returncode = 1 THEN
            pre @@ [raised |-> "none", status |-> "FindingsReported", result |-> Str(o.stdout),
                    out |-> <<head, <<"pip-audit found vulnerabilities:\n", o.stdout>>>>,
                    log |-> <<hlog, <<"warning", "pip-audit found vulnerabilities:\n", o.stdout>>>>]
        ELSE IF r = "CalledProcessError" THEN
            pre @@ [raised |-> "none", status |-> "ExecutionError", result |-> None,
                    out |-> <<head, <<"pip-audit encountered an error:\n", o.stderr>>>>,
                    log |-> <<hlog, <<"error", "pip-audit encountered an error:\n", o.stderr>>>>]
        ELSE
            pre @@ [raised |-> r, status |-> "none", result |-> None,
                    out |-> <<head>>, log |-> <<hlog>>]

(* run_pip_audit *)
run_pip_audit(o) ==
    LET r == subprocess_run(o)
        pre == [tool |-> "pip-audit", launched |-> TRUE]
        head == <<"Running pip-audit...\n", NoText>>
        hlog == <<"info", "Running pip-audit.", NoText>>
    IN  IF r = "CompletedProcess" THEN
            pre @@ [raised |-> "none", status |-> "Success", result |-> Str(o.stdout),
                    out |-> <<head, <<"pip-audit Results:\n", NoText>>, <<"", o.stdout>>>>,
                    log |-> <<hlog, <<"info", "pip-audit completed successfully.", NoText>>>>]
        ELSE IF r = "CalledProcessError" THEN
            pre @@ [raised |-> "none", status |-> "ExecutionError", result |-> None,
                    out |-> <<head, <<"pip-audit encountered an error:\n", o.stderr>>>>,
                    log |-> <<hlog, <<"error", "pip-audit encountered an error:\n", o.stderr>>>>]
        ELSE
            pre @@ [raised |-> r, status |-> "none", result |-> None,
                    out |-> <<head>>, log |-> <<hlog>>]

(* a run_safety that takes every non-zero exit code for findings *)
safety_is_findings_any_nonzero(returncode) == returncode # 0

(* run_safety: the branch taken for a non-zero exit code *)
safety_is_findings(returncode) == returncode = 1

run_safety(o) ==
    LET r == subprocess_run(o)
        pre == [tool |-> "safety", launched |-> TRUE]
        head == <<"Running Safety...\n", NoText>>
        hlog == <<"info", "Running Safety.", NoText>>
    IN  IF r = "CompletedProcess" THEN
            pre @@ [raised |-> "none", status |-> "Success", result |-> Str(o.stdout),
                    out |-> <<head, <<"Safety Results:\n", NoText>>, <<"", o.stdout>>>>,
                    log |-> <<hlog, <<"info", "Safety completed successfully.", NoText>>>>]
        ELSE IF r = "CalledProcessError" THEN
            IF safety_is_findings(o.returncode) THEN
                pre @@ [raised |-> "none", status |-> "FindingsReported", result |-> Str(o.stdout),
                        out |-> <<head, <<"Safety found vulnerabilities:\n", o.stdout>>>>,
                        log |-> <<hlog, <<"warning", "Safety found vulnerabilities:\n", o.stdout>>>>]
            ELSE
                pre @@ [raised |-> "none", status |-> "ExecutionError", result |-> None,
                        out |-> <<head, <<"Safety encountered an error:\n", o.stderr>>>>,
                        log |-> <<hlog, <<"error", "Safety encountered an error:\n", o.stderr>>>>]
        ELSE
            pre @@ [raised |-> r, status |-> "none", result |-> None,
                    out |-> <<head>>, log |-> <<hlog>>]

(* a run_bandit without the existence check *)
bandit_preconditions_no_exists(v, ex) == IF ~v THEN "NotInVirtualEnv" ELSE "ok"

(* run_bandit: the two checks made before the subprocess is started *)
bandit_preconditions(v, ex) ==
    IF ~v THEN "NotInVirtualEnv"
    ELSE IF ~ex THEN "PathInvalid"
    ELSE "ok"

(* a handler that returns e.stdout alone *)
bandit_payload_stdout_only(o) == Str(o.stdout)

(* a handler that returns None when both streams are empty *)
bandit_payload_or_none(o) ==
    IF o.stdout # NoText THEN Str(o.stdout)
    ELSE IF o.stderr # NoText THEN Str(o.stderr)
    ELSE None

(* run_bandit: the value returned from the CalledProcessError handler *)
bandit_payload(o) == IF o.stdout # NoText THEN Str(o.stdout) ELSE Str(o.stderr)

(* a success branch that returns None for an empty report *)
bandit_success_result_or_none(o) == IF o.stdout # NoText THEN Str(o.stdout) ELSE None

(* run_bandit: the value returned when the subprocess exits with 0 *)
bandit_success_result(o) == Str(o.stdout)

run_bandit(v, ex, fp, o) ==
    LET chk == bandit_preconditions(v, ex)
        r == subprocess_run(o)
        pre == [tool |-> "bandit", launched |-> TRUE]
        head == <<"Running Bandit on ", fp>>
        hlog == <<"info", "Running Bandit on ", fp>>
    IN  IF chk = "NotInVirtualEnv" THEN
            [tool |-> "bandit", launched |-> FALSE, raised |-> "none",
             status |-> chk, result |-> None,
             out |-> << <<"Error: Bandit must be run inside a virtual environment.", NoText>> >>,
             log |-> << <<"error", "Error: Bandit must be run inside a virtual environment.", NoText>> >>]
        ELSE IF chk = "PathInvalid" THEN
            [tool |-> "bandit", launched |-> FALSE, raised |-> "none",
             status |-> chk, result |-> None,
             out |-> << <<"Error: The file or directory does not exist: ", fp>> >>,
             log |-> << <<"error", "Error: The file or directory does not exist: ", fp>> >>]
        ELSE IF r = "CompletedProcess" THEN
            pre @@ [raised |-> "none", status |-> "Success", result |-> bandit_success_result(o),
                    out |-> <<head, <<"Bandit Results:\n", NoText>>, <<"", o.stdout>>>>,
                    log |-> <<hlog, <<"info", "Bandit completed successfully.", NoText>>>>]
        ELSE IF r = "CalledProcessError" THEN
            IF o.returncode = 1 THEN
                pre @@ [raised |-> "none", status |-> "FindingsReported", result |-> bandit_payload(o),
                        out |-> <<head, <<"Bandit found issues:\n", o.stdout>>>>,
                        log |-> <<hlog, <<"warning", "Bandit found issues:\n", o.stdout>>>>]
            ELSE
                pre @@ [raised |-> "none", status |-> "ExecutionError", result |-> bandit_payload(o),
                        out |-> <<head, <<"Bandit encountered an error:\n", o.stderr>>>>,
                        log |-> <<hlog, <<"error", "Bandit encountered an error:\n", o.stderr>>>>]
        ELSE
            pre @@ [raised |-> r, status |-> "none", result |-> None,
                    out |-> <<head>>, log |-> <<hlog>>]

(* an orchestrator that gives up after a scan that produced no report *)
after_scan_stop_on_error(r, next) ==
    IF r.raised # "none" THEN "crashed"
    ELSE IF r.status = "ExecutionError" THEN "done"
    ELSE next

(* run_all_scans: where the orchestrator goes once an adapter call is over *)
after_scan(r, next) == IF r.raised # "none" THEN "crashed" ELSE next

----------------------------------------------------------------------------
NoOutcome == [kind |-> "none", returncode |-> 0, stdout |-> NoText, stderr |-> NoText]

Init ==
    /\ pc = "verify_pip_audit"
    /\ venv \in BOOLEAN
    /\ world = [o |-> NoOutcome, exists |-> FALSE]
    /\ probes = <<>>
    /\ launched = <<>>
    /\ out = <<>>
    /\ log = <<>>
    /\ ret = NoCall
    /\ file_path = <<>>
    /\ exitCode = Running
    /\ fault = "none"

(* one call of _verify_tool_installed from __init__ *)
VerifyTool(at, tool, next) ==
    /\ pc = at
    /\ \E o \in Outcomes :
        /\ world' = [world EXCEPT !.o = o]
        /\ probes' = Append(probes, [tool |-> tool, ended |-> subprocess_run(o)])
        /\ IF verify_tool_installed(o)
           THEN /\ log' = Append(log, <<"info", "is installed.", tool>>)
                /\ out' = out
                /\ pc' = next
                /\ exitCode' = exitCode
           ELSE /\ out' = Append(out, <<"Error: not installed or not found in PATH: ", tool>>)
                /\ log' = Append(log, <<"error", "Error: not installed or not found in PATH: ", tool>>)
                /\ pc' = "exited"
                /\ exitCode' = 1
    /\ UNCHANGED <<venv, launched, ret, file_path, fault>>

VerifyPipAudit == VerifyTool("verify_pip_audit", "pip-audit", "verify_safety")

VerifySafety == VerifyTool("verify_safety", "safety", "run_all_scans")

(* run_all_scans, up to the first adapter call *)
StartAllScans ==
    /\ pc = "run_all_scans"
    /\ out' = Append(out, <<"Starting all security scans...\n", NoText>>)
    /\ log' = Append(log, <<"info", "Starting all security scans.", NoText>>)
    /\ pc' = "run_pip_audit"
    /\ UNCHANGED <<venv, world, probes, launched, ret, file_path, exitCode, fault>>

(* the end of an adapter call inside run_all_scans: the adapter's lines,   *)
(* then the line run_all_scans prints next, unless the adapter raised      *)
Scanned(r, next, line) ==
    /\ ret' = r
    /\ pc' = after_scan(r, next)
    /\ out' = IF pc' = next THEN (out \o r.out) \o line ELSE out \o r.out
    /\ fault' = IF pc' = "crashed" THEN r.raised ELSE fault

RunPipAudit ==
    /\ pc = "run_pip_audit"
    /\ \E o \in Outcomes :
        /\ world' = [world EXCEPT !.o = o]
        /\ launched' = Append(launched, <<"pip-audit">>)
        /\ Scanned(run_pip_audit(o), "run_safety", <<SEPARATOR>>)
        /\ log' = log \o run_pip_audit(o).log
    /\ exitCode' = IF pc' = "crashed" THEN 1 ELSE exitCode
    /\ UNCHANGED <<venv, probes, file_path>>

RunSafety ==
    /\ pc = "run_safety"
    /\ \E o \in Outcomes :
        /\ world' = [world EXCEPT !.o = o]
        /\ launched' = Append(launched, <<"safety", "check", "--full-report">>)
        /\ Scanned(run_safety(o), "prompt_and_run_bandit", <<SEPARATOR>>)
        /\ log' = log \o run_safety(o).log
    /\ exitCode' = IF pc' = "crashed" THEN 1 ELSE exitCode
    /\ UNCHANGED <<venv, probes, file_path>>

(* prompt_and_run_bandit, up to the call of run_bandit: input() either     *)
(* returns the typed line or raises EOFError when standard input is closed *)
Prompt ==
    /\ pc = "prompt_and_run_bandit"
    /\ out' = Append(out, <<"Enter the path to the Python file or directory you want to scan with Bandit: ", NoText>>)
    /\ \/ \E line \in PathInputs :
            /\ file_path' = Path(strip(line))
            /\ pc' = "run_bandit"
            /\ UNCHANGED <<exitCode, fault>>
       \/ /\ pc' = "crashed"
          /\ fault' = "EOFError"
          /\ exitCode' = 1
          /\ UNCHANGED file_path
    /\ UNCHANGED <<venv, world, probes, launched, log, ret>>

(* run_bandit, then the rest of run_all_scans and the end of the process *)
RunBandit ==
    /\ pc = "run_bandit"
    /\ \E ex \in BOOLEAN, o \in Outcomes :
        LET r == run_bandit(venv, ex, file_path, o) IN
        /\ world' = [o |-> IF r.launched THEN o ELSE NoOutcome, exists |-> ex]
        /\ launched' = IF r.launched
                       THEN Append(launched, <<"sys.executable", "-m", "bandit", "-r", file_path>>)
                       ELSE launched
        /\ Scanned(r, "done", << <<"\nSecurity scans completed.", NoText>> >>)
        /\ log' = IF pc' = "done"
                  THEN Append(log \o r.log, <<"info", "All security scans completed.", NoText>>)
                  ELSE log \o r.log
    /\ exitCode' = IF pc' = "crashed" THEN 1 ELSE 0
    /\ UNCHANGED <<venv, probes, file_path>>

Next ==
    \/ VerifyPipAudit
    \/ VerifySafety
    \/ StartAllScans
    \/ RunPipAudit
    \/ RunSafety
    \/ Prompt
    \/ RunBandit

Spec == Init /\ [][Next]_vars

TypeOK ==
    /\ pc \in {"verify_pip_audit", "verify_safety", "run_all_scans", "run_pip_audit", "run_safety",
               "prompt_and_run_bandit", "run_bandit", "done", "exited", "crashed"}
    /\ venv \in BOOLEAN
    /\ exitCode \in {Running, 0, 1}
    /\ fault \in {"none", "FileNotFoundError", "EOFError"}
    /\ ret.result = None \/ (Len(ret.result) = 1 /\ ret.result[1] \in Texts)

----------------------------------------------------------------------------
(* Helpers for the properties *)
Last(s) == s[Len(s)]

ProbeCount(t) == Cardinality({i \in 1..Len(probes) : probes[i].tool = t})

ProbeFailed == \E i \in 1..Len(probes) : probes[i].ended # "CompletedProcess"

PreflightPassed == pc \notin {"verify_pip_audit", "verify_safety", "exited"}

ScansEntered == \E i \in 1..Len(out) : out[i][1] = "Starting all security scans...\n"

BanditLaunched == \E i \in 1..Len(launched) : launched[i][1] = "sys.executable"

\* the last adapter call started its subprocess and the subprocess exited
Exited(tool) ==
    /\ ret.tool = tool
    /\ ret.launched
    /\ ret.raised = "none"
    /\ world.o.kind = "exited"

\* the section of the console output a printed line belongs to
SectionOf(line) ==
    IF line[1] = "Starting all security scans...\n" THEN "start"
    ELSE IF line[1] \in {"Running pip-audit...\n", "pip-audit Results:\n",
                         "pip-audit encountered an error:\n"} THEN "audit"
    ELSE IF line[1] \in {"Running Safety...\n", "Safety Results:\n",
                         "Safety found vulnerabilities:\n",
                         "Safety encountered an error:\n"} THEN "safety"
    ELSE IF line = SEPARATOR THEN "separator"
    ELSE IF line[1] \in {"Enter the path to the Python file or directory you want to scan with Bandit: ",
                         "Error: Bandit must be run inside a virtual environment.",
                         "Error: The file or directory does not exist: ",
                         "Running Bandit on ", "Bandit Results:\n", "Bandit found issues:\n",
                         "Bandit encountered an error:\n"} THEN "static-analysis"
    ELSE IF line[1] = "\nSecurity scans completed." THEN "banner"
    ELSE IF line[1] = "Error: not installed or not found in PATH: " THEN "preflight"
    ELSE "same"

\* the sections of the console output, in order; "same" marks the report
\* text printed right after a "... Results:" line
RECURSIVE Sections(_, _)
Sections(lines, prev) ==
    IF lines = <<>> THEN <<>>
    ELSE LET sec == SectionOf(Head(lines)) IN
         IF sec = "same" \/ (sec = prev /\ sec # "separator")
         THEN Sections(Tail(lines), prev)
         ELSE <<sec>> \o Sections(Tail(lines), sec)

FixedOrder == <<"start", "audit", "separator", "safety", "separator", "static-analysis", "banner">>

----------------------------------------------------------------------------
(* C1: a failed version probe (not launched, or non-zero exit) ends the    *)
(* process with a non-zero exit code; in that run no scan subprocess is    *)
(* started, no adapter is called and run_all_scans is not entered.         *)
C1_PreflightFatal ==
    ProbeFailed =>
        /\ pc = "exited"
        /\ exitCode = 1
        /\ launched = <<>>
        /\ ret = NoCall
        /\ ~ScansEntered

C1_Witness ==
    /\ Len(probes) = 2
    /\ probes[1].ended = "CompletedProcess"
    /\ probes[2].ended = "FileNotFoundError"
    /\ pc = "exited"

(* C2: by the time the scans begin every one of the three known tools has  *)
(* been probed exactly once, and none is probed again afterwards.          *)
C2_EachKnownToolProbedOnce ==
    PreflightPassed => \A t \in KnownTools : ProbeCount(t) = 1

(* C3: run_safety: exit 0 is Success with result stdout; exit 1 is         *)
(* FindingsReported, logged as a warning, with result stdout; any other    *)
(* exit is ExecutionError, logged as an error carrying stderr, result None *)
C3_SafetyThreeWay ==
    Exited("safety") =>
        LET o == world.o IN
        /\ o.returncode = 0 =>
              /\ ret.status = "Success"
              /\ ret.result = Str(o.stdout)
              /\ Last(log)[1] = "info"
        /\ o.returncode = 1 =>
              /\ ret.status = "FindingsReported"
              /\ ret.result = Str(o.stdout)
              /\ Last(log) = <<"warning", "Safety found vulnerabilities:\n", o.stdout>>
              /\ \A i \in 1..Len(ret.log) : ret.log[i][1] # "error"
        /\ o.returncode \notin {0, 1} =>
              /\ ret.status = "ExecutionError"
              /\ ret.result = None
              /\ Last(log) = <<"error", "Safety encountered an error:\n", o.stderr>>

C3_Witness ==
    /\ Exited("safety")
    /\ world.o.returncode = 1
    /\ world.o.stdout # NoText
    /\ world.o.stderr # NoText
    /\ world.o.stdout # world.o.stderr
    /\ ret.result = Str(world.o.stdout)

(* C4: the bandit subprocess is started only when the interpreter is in a  *)
(* virtual environment and the target path exists; otherwise nothing is    *)
(* started, an error is printed and logged, and the result is None.        *)
C4_BanditPreconditions ==
    /\ BanditLaunched => venv /\ world.exists
    /\ (ret.tool = "bandit" /\ ~(venv /\ world.exists)) =>
          /\ ~ret.launched
          /\ ~BanditLaunched
          /\ Len(launched) = 2
          /\ ret.result = None
          /\ Len(ret.out) = 1
          /\ out[Len(out) - 1] = ret.out[1]
          /\ log[Len(log) - 1] = <<"error", ret.out[1][1], ret.out[1][2]>>

C4_Witness ==
    /\ ret.tool = "bandit"
    /\ venv
    /\ ~world.exists
    /\ file_path = <<"a">>
    /\ ret.result = None

C6_NoScanFaultIsFatal ==
    (PreflightPassed /\ fault # "EOFError") =>
        /\ pc # "crashed"
        /\ exitCode \in {Running, 0}

C8_SuccessReturnsStdout ==
    \A t \in KnownTools :
        (Exited(t) /\ world.o.returncode = 0) =>
            /\ ret.status = "Success"
            /\ ret.result = Str(world.o.stdout)
            /\ LET l == IF t = "bandit" THEN log[Len(log) - 1] ELSE Last(log) IN
               /\ l[1] = "info"
               /\ l[2] \in {"pip-audit completed successfully.", "Safety completed successfully.",
                            "Bandit completed successfully."}

C8_Witness ==
    /\ Exited("bandit")
    /\ world.o.returncode = 0
    /\ world.o.stdout = NoText
    /\ ret.result = Str(NoText)
    /\ \E i \in 1..Len(out) : out[i][1] = "pip-audit Results:\n"
    /\ \E i \in 1..Len(out) : out[i][1] = "Safety Results:\n"

(* C9: run_pip_audit turns every non-zero exit, 1 included, into           *)
(* ExecutionError: the result is None and the line printed and logged at   *)
(* error level carries stderr.                                             *)
C9_PipAuditNonZero ==
    (Exited("pip-audit") /\ world.o.returncode # 0) =>
        /\ ret.status = "ExecutionError"
        /\ ret.result = None
        /\ Last(log) = <<"error", "pip-audit encountered an error:\n", world.o.stderr>>
        /\ out[Len(out) - 1] = <<"pip-audit encountered an error:\n", world.o.stderr>>

C9_Witness ==
    /\ Exited("pip-audit")
    /\ world.o.returncode = 1
    /\ world.o.stdout # NoText
    /\ world.o.stderr # NoText
    /\ ret.result = None

====
